---- MODULE Spec2Model ----
(***************************************************************************)
(* Model of server.py: the POST /upload-audio/ handler upload_audio, the   *)
(* temp file it owns, the off-thread Whisper call, the OpenAI completion   *)
(* call with its fallback table, the best-effort OSC send and the finally  *)
(* block that removes the temp file.                                       *)
(*                                                                         *)
(* The handler is a coroutine on a single-threaded event loop: the code    *)
(* between two awaits runs without interleaving, so there is one action    *)
(* per resumption of the coroutine.  The Whisper call runs on a worker     *)
(* thread and is the only truly concurrent activity.                       *)
(*                                                                         *)
(* A Python str is a sequence of one-character strings; the fixed fallback *)
(* messages are one-token sequences (they are never trimmed or inspected). *)
(***************************************************************************)
EXTENDS Integers, Sequences, FiniteSets, TLC

\* ------------------------------------------------------------------ bounds
NumReq == 2
NumPaths == 2
MaxChunks == 1

Requests == 1..NumReq
Paths == 1..NumPaths

\* ------------------------------------------------------------ Python values
NoPath == 0
NoFile == 0
EmptyStr == <<>>
Whitespace == {" ", "\t"}

RECURSIVE lstrip(_)
lstrip(s) ==
  IF s = <<>> THEN s
  ELSE IF Head(s) \in Whitespace THEN lstrip(Tail(s)) ELSE s

RECURSIVE rstrip(_)
rstrip(s) ==
  IF s = <<>> THEN s
  ELSE IF s[Len(s)] \in Whitespace THEN rstrip(SubSeq(s, 1, Len(s) - 1)) ELSE s

strip(s) == rstrip(lstrip(s))

\* Python truthiness of a str
Truthy(s) == s # <<>>

\* ------------------------------------------------------- exception classes
\* Ancestors[c] is the set of classes an exception of class c is an
\* instance of (openai: RateLimitError and APITimeoutError derive from
\* APIError).  asyncio.TimeoutError is what asyncio.wait_for raises.
Ancestors ==
  [ RateLimitError       |-> {"RateLimitError", "APIError", "Exception"},
    APITimeoutError      |-> {"APITimeoutError", "APIError", "Exception"},
    APIError             |-> {"APIError", "Exception"},
    asyncioTimeoutError  |-> {"asyncioTimeoutError", "Exception"},
    IndexError           |-> {"IndexError", "Exception"},
    AttributeError       |-> {"AttributeError", "Exception"},
    RuntimeError         |-> {"RuntimeError", "Exception"},
    OSError              |-> {"OSError", "Exception"} ]

IsInstance(cls, base) == base \in Ancestors[cls]

\* ---------------------------------------------------------------- responses
JSONResponse(code, content) == [kind |-> "json", status |-> code, body |-> content]
NoResponse == [kind |-> "none", status |-> 0, body |-> [none |-> TRUE]]
\* the handler did not return: the exception leaves upload_audio
Propagated(cls) == [kind |-> "raise", status |-> 0, body |-> [exc |-> cls]]
\* the framework rejected the request before calling the handler
ValidationError == [kind |-> "validation", status |-> 422, body |-> [detail |-> "missing"]]

RATE_LIMIT_MSG == <<"I'm being rate-limited right now. Please try again in a moment.">>
TOO_LONG_MSG == <<"The AI took too long to respond. Let's try again.">>
API_ERROR_MSG == <<"I hit an API error. Please try again.">>
UNKNOWN_MSG == <<"Something went wrong generating a reply.">>

\* ------------------------------------------------- transcription (Whisper)
\* what model.transcribe(path) hands back: None, or a dict that may lack
\* "text" or hold None under it
WhisperResult(isNone, hasText, textIsNone, t) ==
  [isNone |-> isNone, hasText |-> hasText, textIsNone |-> textIsNone, text |-> t]

Raise(cls) == [raised |-> TRUE, cls |-> cls, value |-> EmptyStr]
Return(v) == [raised |-> FALSE, cls |-> "", value |-> v]

\* (result or {}).get("text", "").strip()
do_transcribe(result) ==
  IF result.isNone \/ ~result.hasText THEN Return(strip(EmptyStr))
  ELSE IF result.textIsNone THEN Raise("AttributeError")
  ELSE Return(strip(result.text))

\* what the worker thread ends with: model.transcribe returned or raised
ThreadReturned(result) == [kind |-> "returned", cls |-> "", result |-> result]
ThreadRaised(cls) == [kind |-> "raised", cls |-> cls, result |-> WhisperResult(TRUE, FALSE, FALSE, EmptyStr)]

\* asyncio.wait_for(asyncio.to_thread(do_transcribe, tmp_path), timeout=60.0):
\* the thread's value or exception when it ends in time, else
\* asyncio.TimeoutError
AwaitTranscription(expired, threadEnd) ==
  IF expired THEN Raise("asyncioTimeoutError")
  ELSE IF threadEnd.kind = "raised" THEN Raise(threadEnd.cls)
  ELSE do_transcribe(threadEnd.result)

\* variant: the except Exception clause placed above the TimeoutError clause
TranscriptionStage_ExceptionFirst(awaited) ==
  IF ~awaited.raised
    THEN [goesOn |-> TRUE, text |-> awaited.value, response |-> NoResponse]
  ELSE IF IsInstance(awaited.cls, "Exception")
    THEN [goesOn |-> FALSE, text |-> EmptyStr,
          response |-> JSONResponse(500, [error |-> "transcription_failed"])]
  ELSE [goesOn |-> FALSE, text |-> EmptyStr, response |-> Propagated(awaited.cls)]

\* variant: a failed transcription is logged and the handler goes on with
\* a placeholder text
TranscriptionStage_GoesOnAfterFailure(awaited) ==
  IF ~awaited.raised
    THEN [goesOn |-> TRUE, text |-> awaited.value, response |-> NoResponse]
  ELSE IF IsInstance(awaited.cls, "asyncioTimeoutError")
    THEN [goesOn |-> FALSE, text |-> EmptyStr,
          response |-> JSONResponse(504, [error |-> "transcription_timeout"])]
  ELSE [goesOn |-> TRUE, text |-> <<"?">>, response |-> NoResponse]

\* the try/except around the wait: the handler goes on with text, or
\* returns a response
TranscriptionStage(awaited) ==
  IF ~awaited.raised
    THEN [goesOn |-> TRUE, text |-> awaited.value, response |-> NoResponse]
  ELSE IF IsInstance(awaited.cls, "asyncioTimeoutError")
    THEN [goesOn |-> FALSE, text |-> EmptyStr,
          response |-> JSONResponse(504, [error |-> "transcription_timeout"])]
  ELSE IF IsInstance(awaited.cls, "Exception")
    THEN [goesOn |-> FALSE, text |-> EmptyStr,
          response |-> JSONResponse(500, [error |-> "transcription_failed"])]
  ELSE [goesOn |-> FALSE, text |-> EmptyStr, response |-> Propagated(awaited.cls)]

\* ---------------------------------------------------- completion (OpenAI)
\* what client.chat.completions.create(...) under wait_for(timeout=40.0)
\* ends with: a reply, an exception of the call, or expiry of the wait
Reply(nChoices, contentIsNone, content) ==
  [kind |-> "reply", cls |-> "", choices |-> nChoices,
   contentIsNone |-> contentIsNone, content |-> content]
CallRaised(cls) ==
  [kind |-> "raised", cls |-> cls, choices |-> 0, contentIsNone |-> TRUE, content |-> EmptyStr]
WaitExpired ==
  [kind |-> "expired", cls |-> "", choices |-> 0, contentIsNone |-> TRUE, content |-> EmptyStr]
NoOutcome ==
  [kind |-> "none", cls |-> "", choices |-> 0, contentIsNone |-> TRUE, content |-> EmptyStr]

\* the body of the try block: the awaited call, then
\* (resp.choices[0].message.content or "").strip()
CompletionTry(outcome) ==
  IF outcome.kind = "expired" THEN Raise("asyncioTimeoutError")
  ELSE IF outcome.kind = "raised" THEN Raise(outcome.cls)
  ELSE IF outcome.choices = 0 THEN Raise("IndexError")
  ELSE IF outcome.contentIsNone THEN Return(strip(EmptyStr))
  ELSE Return(strip(outcome.content))

\* variant: no final except Exception clause
CompletionExcept_NoCatchAll(cls) ==
  IF IsInstance(cls, "RateLimitError") THEN Return(RATE_LIMIT_MSG)
  ELSE IF IsInstance(cls, "APITimeoutError") THEN Return(TOO_LONG_MSG)
  ELSE IF IsInstance(cls, "APIError") THEN Return(API_ERROR_MSG)
  ELSE IF IsInstance(cls, "asyncioTimeoutError") THEN Return(TOO_LONG_MSG)
  ELSE Raise(cls)

\* variant: the except APIError clause placed above its subclasses
CompletionExcept_APIErrorFirst(cls) ==
  IF IsInstance(cls, "APIError") THEN Return(API_ERROR_MSG)
  ELSE IF IsInstance(cls, "RateLimitError") THEN Return(RATE_LIMIT_MSG)
  ELSE IF IsInstance(cls, "APITimeoutError") THEN Return(TOO_LONG_MSG)
  ELSE IF IsInstance(cls, "asyncioTimeoutError") THEN Return(TOO_LONG_MSG)
  ELSE IF IsInstance(cls, "Exception") THEN Return(UNKNOWN_MSG)
  ELSE Raise(cls)

\* the except clauses, in source order; the first clause the exception is
\* an instance of wins
CompletionExcept(cls) ==
  IF IsInstance(cls, "RateLimitError") THEN Return(RATE_LIMIT_MSG)
  ELSE IF IsInstance(cls, "APITimeoutError") THEN Return(TOO_LONG_MSG)
  ELSE IF IsInstance(cls, "APIError") THEN Return(API_ERROR_MSG)
  ELSE IF IsInstance(cls, "asyncioTimeoutError") THEN Return(TOO_LONG_MSG)
  ELSE IF IsInstance(cls, "Exception") THEN Return(UNKNOWN_MSG)
  ELSE Raise(cls)

\* gpt_output after the try/except, or the exception that leaves it
CompletionStage(outcome) ==
  LET tried == CompletionTry(outcome)
  IN  IF tried.raised THEN CompletionExcept(tried.cls) ELSE tried

\* variant: the completion call made whatever the transcript
ShouldComplete_Always(t) == TRUE

\* gpt_output = ""; if text: ... the completion call is made for a
\* non-empty transcript only
ShouldComplete(t) == Truthy(t)

\* ------------------------------------------------------- broadcast (OSC)
\* try: if osc_client and gpt_output: osc_client.send_message(...)
\* except Exception: print
\* variant: the guard tests the client only
WillSend_IgnoresEmpty(client, gpt) == client # "none"

WillSend(client, gpt) == client # "none" /\ Truthy(gpt)

\* variant: no try/except around the send
BroadcastStage_Propagates(client, gpt, sendOk) ==
  IF WillSend(client, gpt)
    THEN IF sendOk
           THEN [status |-> "sent", called |-> TRUE, datagrams |-> <<gpt>>, raised |-> FALSE]
           ELSE [status |-> "send_failed", called |-> TRUE, datagrams |-> <<>>, raised |-> TRUE]
    ELSE [status |-> "not_sent", called |-> FALSE, datagrams |-> <<>>, raised |-> FALSE]

BroadcastStage(client, gpt, sendOk) ==
  IF WillSend(client, gpt)
    THEN IF sendOk
           THEN [status |-> "sent", called |-> TRUE, datagrams |-> <<gpt>>, raised |-> FALSE]
           ELSE [status |-> "send_failed", called |-> TRUE, datagrams |-> <<>>, raised |-> FALSE]
    ELSE [status |-> "not_sent", called |-> FALSE, datagrams |-> <<>>, raised |-> FALSE]

\* return {"transcription": text or "", "gpt_output": gpt_output or ""}
SuccessResponse(t, gpt) ==
  JSONResponse(200, [transcription |-> IF Truthy(t) THEN t ELSE EmptyStr,
                     gpt_output |-> IF Truthy(gpt) THEN gpt ELSE EmptyStr])

\* ------------------------------------------------------------- input sets
FileParts == {"absent", "present"}

SampleTexts == { <<" ">>, <<" ", "h", "i", " ">> }

WhisperResults ==
  { WhisperResult(TRUE, FALSE, FALSE, EmptyStr),
    WhisperResult(FALSE, FALSE, FALSE, EmptyStr),
    WhisperResult(FALSE, TRUE, TRUE, EmptyStr) }
  \cup { WhisperResult(FALSE, TRUE, FALSE, t) : t \in SampleTexts }

BackendErrors == {"RuntimeError", "asyncioTimeoutError"}

ThreadEnds ==
  { ThreadReturned(res) : res \in WhisperResults }
  \cup { ThreadRaised(c) : c \in BackendErrors }

SampleReplies == { <<" ">>, <<" ", "o", "k", " ">> }

CompletionErrors ==
  {"RateLimitError", "APITimeoutError", "APIError", "asyncioTimeoutError", "RuntimeError"}

CompletionOutcomes ==
  { Reply(1, FALSE, c) : c \in SampleReplies }
  \cup { Reply(1, TRUE, EmptyStr), Reply(0, TRUE, EmptyStr), WaitExpired }
  \cup { CallRaised(c) : c \in CompletionErrors }

\* ------------------------------------------------------------------ state
VARIABLES
  oscClient,     \* module-level osc_client: "client" or "none"
  fs,            \* scratch directory: path -> the request whose temp file is there, or NoFile
  upload,        \* what each request carried: "absent" or "present" file part
  pc,            \* where each request's coroutine is suspended
  tmp_path,      \* local tmp_path of each handler
  written,       \* chunks written to the tmp of each handler that is still open
  text,          \* text of each handler: the transcript, once transcription returned
  thread,        \* the to_thread worker of each request and the path it was given
  response,      \* what the request ended with
  log,           \* calls each request has made, in program order
  trEvent,       \* how the wait for the transcription ended
  cmplOutcome,   \* how the completion call ended
  oscSent,       \* datagrams each request has put on the wire
  removeFailed   \* os.remove raised in the finally block

vars == <<oscClient, fs, upload, pc, tmp_path, written, text, thread, response, log,
          trEvent, cmplOutcome, oscSent, removeFailed>>

NoThread == [state |-> "none", path |-> NoPath]

Init ==
  /\ oscClient \in {"client", "none"}
  /\ fs = [p \in Paths |-> NoFile]
  /\ upload = [r \in Requests |-> "none"]
  /\ pc = [r \in Requests |-> "idle"]
  /\ tmp_path = [r \in Requests |-> NoPath]
  /\ written = [r \in Requests |-> 0]
  /\ text = [r \in Requests |-> EmptyStr]
  /\ thread = [r \in Requests |-> NoThread]
  /\ response = [r \in Requests |-> NoResponse]
  /\ log = [r \in Requests |-> <<>>]
  /\ trEvent = [r \in Requests |-> "none"]
  /\ cmplOutcome = [r \in Requests |-> NoOutcome]
  /\ oscSent = [r \in Requests |-> <<>>]
  /\ removeFailed = [r \in Requests |-> FALSE]

\* file: UploadFile = File(...): the parameter is required, so the framework
\* binds an UploadFile or rejects the request without calling the handler
BindFile(part) ==
  IF part = "absent" THEN [valid |-> FALSE, isNone |-> TRUE]
  ELSE [valid |-> TRUE, isNone |-> FALSE]

\* variant: the name is not checked against the files that exist
FreshNames_Any(files) == Paths

\* tempfile.NamedTemporaryFile creates the file under a name that no
\* existing file has
FreshNames(files) == {p \in Paths : files[p] = NoFile}

\* variant: NamedTemporaryFile(delete=True), closing removes the file
CloseTmp_DeleteOnClose(files, path) == [files EXCEPT ![path] = NoFile]

\* tmp.flush(); tmp.close() with delete=False: the file stays
CloseTmp(files, path) == files

\* variant: the finally block removes nothing
Cleanup_Noop(files, path, rmOk) == [removed |-> TRUE, files |-> files]

\* finally: try: os.remove(tmp_path) except Exception: pass
Cleanup(files, path, rmOk) ==
  IF rmOk /\ files[path] # NoFile
    THEN [removed |-> TRUE, files |-> [files EXCEPT ![path] = NoFile]]
    ELSE [removed |-> FALSE, files |-> files]

\* variant: the return is not covered by a finally block
Leave_NoFinally(r, resp, entries, rmOk) ==
  /\ response' = [response EXCEPT ![r] = resp]
  /\ log' = [log EXCEPT ![r] = @ \o entries \o
               <<IF resp.kind = "raise" THEN "raise" ELSE "return">>]
  /\ pc' = [pc EXCEPT ![r] = "done"]
  /\ tmp_path' = [tmp_path EXCEPT ![r] = NoPath]
  /\ UNCHANGED <<fs, written, removeFailed>>

\* variant: the temp file is removed before the rest of the handler runs
Leave_CleanupFirst(r, resp, entries, rmOk) ==
  LET c == Cleanup(fs, tmp_path[r], rmOk)
  IN  /\ fs' = c.files
      /\ removeFailed' = [removeFailed EXCEPT ![r] = ~c.removed]
      /\ log' = [log EXCEPT ![r] = @ \o <<"os.remove">> \o entries \o
                   <<IF resp.kind = "raise" THEN "raise" ELSE "return">>]
      /\ response' = [response EXCEPT ![r] = resp]
      /\ pc' = [pc EXCEPT ![r] = "done"]
      /\ tmp_path' = [tmp_path EXCEPT ![r] = NoPath]
      /\ UNCHANGED written

\* variant: os.remove is not wrapped in try/except, its exception replaces
\* the return value
Leave_RemoveRaises(r, resp, entries, rmOk) ==
  LET c == Cleanup(fs, tmp_path[r], rmOk)
  IN  /\ fs' = c.files
      /\ removeFailed' = [removeFailed EXCEPT ![r] = ~c.removed]
      /\ log' = [log EXCEPT ![r] = @ \o entries \o
                   <<IF resp.kind = "raise" THEN "raise" ELSE "return", "os.remove">>]
      /\ response' = [response EXCEPT ![r] = IF c.removed THEN resp ELSE Propagated("OSError")]
      /\ pc' = [pc EXCEPT ![r] = "done"]
      /\ tmp_path' = [tmp_path EXCEPT ![r] = NoPath]
      /\ UNCHANGED written

\* a return or an exception inside the try block: the finally block runs,
\* then the handler is over and its locals are gone
Leave(r, resp, entries, rmOk) ==
  LET c == Cleanup(fs, tmp_path[r], rmOk)
  IN  /\ fs' = c.files
      /\ removeFailed' = [removeFailed EXCEPT ![r] = ~c.removed]
      /\ log' = [log EXCEPT ![r] = @ \o entries \o
                   <<IF resp.kind = "raise" THEN "raise" ELSE "return", "os.remove">>]
      /\ response' = [response EXCEPT ![r] = resp]
      /\ pc' = [pc EXCEPT ![r] = "done"]
      /\ tmp_path' = [tmp_path EXCEPT ![r] = NoPath]
      /\ UNCHANGED written

\* lines 115-129 after gpt_output is known: the OSC send, the return of the
\* 200 body and the finally block
Respond(r, t, gpt, entries) ==
  \E sendOk \in (IF WillSend(oscClient, gpt) THEN BOOLEAN ELSE {TRUE}), rmOk \in BOOLEAN :
    LET b == BroadcastStage(oscClient, gpt, sendOk)
        sends == IF b.called THEN <<"send_message">> ELSE <<>>
    IN  /\ oscSent' = [oscSent EXCEPT ![r] = @ \o b.datagrams]
        /\ Leave(r, IF b.raised THEN Propagated("OSError") ELSE SuccessResponse(t, gpt),
                 entries \o sends, rmOk)

\* variant: the copy loop and the early returns sit outside the try block
Abandon_NoCleanup(r, resp) ==
  \E rmOk \in BOOLEAN : Leave_NoFinally(r, resp, <<>>, rmOk)

\* an exception or an early return inside the try block
Abandon(r, resp) ==
  \E rmOk \in BOOLEAN : Leave(r, resp, <<>>, rmOk)

\* the request arrives: parameter binding, the guard, and
\* NamedTemporaryFile(delete=False), up to the first await file.read
Arrive(r) ==
  /\ pc[r] = "idle"
  /\ \E part \in FileParts :
       LET file == BindFile(part)
       IN  /\ upload' = [upload EXCEPT ![r] = part]
           /\ IF ~file.valid \/ file.isNone
                THEN /\ response' = [response EXCEPT ![r] =
                           IF ~file.valid THEN ValidationError
                           ELSE JSONResponse(400, [error |-> "no_file"])]
                     /\ pc' = [pc EXCEPT ![r] = "done"]
                     /\ UNCHANGED <<fs, tmp_path, log>>
                ELSE \/ \E p \in FreshNames(fs) :
                          /\ fs' = [fs EXCEPT ![p] = r]
                          /\ tmp_path' = [tmp_path EXCEPT ![r] = p]
                          /\ log' = [log EXCEPT ![r] = @ \o <<"NamedTemporaryFile">>]
                          /\ pc' = [pc EXCEPT ![r] = "persist"]
                          /\ UNCHANGED response
                     \/ \* NamedTemporaryFile raises: no file, and the try block
                        \* is not entered
                        /\ response' = [response EXCEPT ![r] = Propagated("OSError")]
                        /\ pc' = [pc EXCEPT ![r] = "done"]
                        /\ UNCHANGED <<fs, tmp_path, log>>
  /\ UNCHANGED <<oscClient, written, text, thread, trEvent, cmplOutcome, oscSent, removeFailed>>

\* one resumption of the copy loop: file.read returns a chunk that is
\* written, or returns b"" so that the file is flushed and closed and the
\* worker thread is started, or one of read, write, flush, close raises
ReadChunk(r) ==
  /\ pc[r] = "persist"
  /\ \/ /\ written[r] < MaxChunks
        /\ written' = [written EXCEPT ![r] = @ + 1]
        /\ UNCHANGED <<fs, pc, tmp_path, text, thread, response, log, removeFailed>>
     \/ /\ thread' = [thread EXCEPT ![r] = [state |-> "running", path |-> tmp_path[r]]]
        /\ log' = [log EXCEPT ![r] = @ \o <<"to_thread">>]
        /\ pc' = [pc EXCEPT ![r] = "transcribing"]
        /\ written' = [written EXCEPT ![r] = 0]
        /\ fs' = CloseTmp(fs, tmp_path[r])
        /\ UNCHANGED <<tmp_path, text, response, removeFailed>>
     \/ /\ Abandon(r, Propagated("OSError"))
        /\ UNCHANGED <<text, thread>>
  /\ UNCHANGED <<oscClient, upload, trEvent, cmplOutcome, oscSent>>

\* the worker thread ends within the 60 s: the handler resumes with its
\* value or exception and runs to the completion call or to the end
TranscribeReturn(r) ==
  /\ pc[r] = "transcribing"
  /\ thread[r].state = "running"
  /\ \E threadEnd \in ThreadEnds :
       LET awaited == AwaitTranscription(FALSE, threadEnd)
           st == TranscriptionStage(awaited)
       IN  /\ thread' = [thread EXCEPT ![r] = [state |-> "returned", path |-> NoPath]]
           /\ trEvent' = [trEvent EXCEPT ![r] = IF awaited.raised THEN "raised" ELSE "returned"]
           /\ text' = [text EXCEPT ![r] = st.text]
           /\ IF ~st.goesOn
                THEN /\ Abandon(r, st.response)
                     /\ UNCHANGED oscSent
              ELSE IF ShouldComplete(st.text)
                THEN /\ log' = [log EXCEPT ![r] = @ \o <<"chat.create">>]
                     /\ pc' = [pc EXCEPT ![r] = "completing"]
                     /\ UNCHANGED <<fs, tmp_path, written, response, removeFailed, oscSent>>
                ELSE Respond(r, st.text, EmptyStr, <<>>)
  /\ UNCHANGED <<oscClient, upload, cmplOutcome>>

\* the 60 s wait expires first: wait_for raises asyncio.TimeoutError in the
\* handler; the worker thread cannot be cancelled and keeps running
TranscribeTimeout(r) ==
  /\ pc[r] = "transcribing"
  /\ thread[r].state = "running"
  /\ LET st == TranscriptionStage(AwaitTranscription(TRUE, ThreadRaised("RuntimeError")))
     IN  /\ ~st.goesOn
         /\ Abandon(r, st.response)
  /\ trEvent' = [trEvent EXCEPT ![r] = "expired"]
  /\ UNCHANGED <<oscClient, upload, text, thread, cmplOutcome, oscSent>>

\* variant: the late result is handed to the request all the same
ThreadLateReturn_Delivers(r) ==
  /\ thread[r].state = "running"
  /\ pc[r] # "transcribing"
  /\ thread' = [thread EXCEPT ![r] = [state |-> "returned", path |-> NoPath]]
  /\ \E threadEnd \in ThreadEnds :
       LET awaited == AwaitTranscription(FALSE, threadEnd)
       IN  /\ ~awaited.raised
           /\ text' = [text EXCEPT ![r] = awaited.value]
           /\ response' = [response EXCEPT ![r] = SuccessResponse(awaited.value, EmptyStr)]
  /\ UNCHANGED <<oscClient, fs, upload, pc, tmp_path, written, log,
                 trEvent, cmplOutcome, oscSent, removeFailed>>

\* a worker thread whose waiter is gone ends; nobody reads its result
ThreadLateReturn(r) ==
  /\ thread[r].state = "running"
  /\ pc[r] # "transcribing"
  /\ thread' = [thread EXCEPT ![r] = [state |-> "returned", path |-> NoPath]]
  /\ UNCHANGED <<oscClient, fs, upload, pc, tmp_path, written, text, response, log,
                 trEvent, cmplOutcome, oscSent, removeFailed>>

\* variant: a rate-limited completion call is made again
CompletionReturn_RetriesRateLimit(r) ==
  /\ pc[r] = "completing"
  /\ \E outcome \in CompletionOutcomes :
       LET c == CompletionStage(outcome)
       IN  /\ cmplOutcome' = [cmplOutcome EXCEPT ![r] = outcome]
           /\ IF outcome = CallRaised("RateLimitError") /\ Len(log[r]) < 4
                THEN /\ log' = [log EXCEPT ![r] = @ \o <<"chat.create">>]
                     /\ UNCHANGED <<fs, pc, tmp_path, written, response, removeFailed, oscSent>>
              ELSE IF c.raised
                THEN /\ Abandon(r, Propagated(c.cls))
                     /\ UNCHANGED oscSent
                ELSE Respond(r, text[r], c.value, <<>>)
  /\ UNCHANGED <<oscClient, upload, text, thread, trEvent>>

\* the completion call ends (reply, exception or the 40 s expiry): the
\* handler resumes and runs to the end
CompletionReturn(r) ==
  /\ pc[r] = "completing"
  /\ \E outcome \in CompletionOutcomes :
       LET c == CompletionStage(outcome)
       IN  /\ cmplOutcome' = [cmplOutcome EXCEPT ![r] = outcome]
           /\ IF c.raised
                THEN /\ Abandon(r, Propagated(c.cls))
                     /\ UNCHANGED oscSent
                ELSE Respond(r, text[r], c.value, <<>>)
  /\ UNCHANGED <<oscClient, upload, text, thread, trEvent>>

Next ==
  \E r \in Requests :
    \/ Arrive(r)
    \/ ReadChunk(r)
    \/ TranscribeReturn(r)
    \/ TranscribeTimeout(r)
    \/ ThreadLateReturn(r)
    \/ CompletionReturn(r)

Spec == Init /\ [][Next]_vars

\* =================================================================== claims
Done(r) == pc[r] = "done"
InFlight(r) == pc[r] \in {"persist", "transcribing", "completing"}
Count(seq, x) == Cardinality({i \in DOMAIN seq : seq[i] = x})
Called(r, x) == Count(log[r], x) > 0
ArtifactsOf(r) == {p \in Paths : fs[p] = r}
ArtifactExists(r) == ArtifactsOf(r) # {}

Timeout504 == JSONResponse(504, [error |-> "transcription_timeout"])
Failed500 == JSONResponse(500, [error |-> "transcription_failed"])
NoFile400 == JSONResponse(400, [error |-> "no_file"])

IsSuccess200(resp) ==
  /\ resp.kind = "json"
  /\ resp.status = 200
  /\ DOMAIN resp.body = {"transcription", "gpt_output"}

IsDocumented(resp) ==
  \/ IsSuccess200(resp)
  \/ resp \in {NoFile400, Timeout504, Failed500}

\* C1: a request that created a temp file executes os.remove exactly once
\* by the time it is over, on every exit path, never more than once before,
\* and when that removal did not fail the file is gone.
C1_ReleaseExactlyOnce ==
  \A r \in Requests :
    /\ Count(log[r], "os.remove") <= Count(log[r], "NamedTemporaryFile")
    /\ Count(log[r], "NamedTemporaryFile") <= 1
    /\ (Done(r) /\ Called(r, "NamedTemporaryFile")) =>
          /\ Count(log[r], "os.remove") = 1
          /\ (~removeFailed[r] => ~ArtifactExists(r))

C1_Witness ==
  \E r \in Requests :
    /\ Done(r)
    /\ response[r] = Propagated("OSError")
    /\ Count(log[r], "NamedTemporaryFile") = 1
    /\ Count(log[r], "os.remove") = 1
    /\ ~ArtifactExists(r)

\* C2: every request that carries a file ends with a JSON response of a
\* documented shape (200, 400, 504 or 500 with the documented body),
\* whichever stage failed.
C2_AlwaysDocumentedResponse ==
  \A r \in Requests :
    (Done(r) /\ upload[r] = "present") => IsDocumented(response[r])

\* C3 as stated: after the 60 s wait expired the response is 504
\* transcription_timeout and the temp file is gone once the request is over.
C3_TimeoutRemovesArtifact ==
  \A r \in Requests :
    (Done(r) /\ trEvent[r] = "expired") =>
       /\ response[r] = Timeout504
       /\ ~ArtifactExists(r)

\* C3 amended: after the 60 s wait expired the response is 504
\* transcription_timeout and os.remove has been executed once on the temp
\* file; the file is gone unless that removal raised.
C3_TimeoutReleasesArtifact ==
  \A r \in Requests :
    (Done(r) /\ trEvent[r] = "expired") =>
       /\ response[r] = Timeout504
       /\ Count(log[r], "os.remove") = 1
       /\ (~removeFailed[r] => ~ArtifactExists(r))

C3_Witness ==
  \E r \in Requests :
    /\ Done(r)
    /\ trEvent[r] = "expired"
    /\ thread[r].state = "running"
    /\ response[r] = Timeout504
    /\ ~ArtifactExists(r)

\* C4: an error raised by the backend inside do_transcribe gives 500
\* transcription_failed whatever its class, and 504 is given only when the
\* wait expired.
C4_BackendErrorIs500 ==
  \A r \in Requests :
    Done(r) =>
       /\ (trEvent[r] = "raised" => response[r] = Failed500)
       /\ (response[r] = Timeout504 => trEvent[r] = "expired")

\* C5: once transcription returned a non-empty text, whatever the completion
\* call ends with, the request ends with 200, transcription equal to the
\* transcript and gpt_output present; never with an error status or an
\* exception.
C5_CompletionNeverFailsRequest ==
  \A r \in Requests :
    (Done(r) /\ trEvent[r] = "returned" /\ Truthy(text[r])) =>
       /\ cmplOutcome[r].kind # "none"
       /\ IsSuccess200(response[r])
       /\ response[r].body.transcription = text[r]

C5_Witness ==
  \E r \in Requests :
    /\ Done(r)
    /\ cmplOutcome[r] = CallRaised("RuntimeError")
    /\ IsSuccess200(response[r])
    /\ response[r].body.transcription = <<"h", "i">>

\* the reply text the claim expects for the replies of the model
TrimmedReply(outcome) ==
  IF ~outcome.contentIsNone /\ outcome.content = <<" ", "o", "k", " ">>
    THEN <<"o", "k">>
    ELSE EmptyStr

\* C6 as stated: gpt_output is RATE_LIMIT_MSG for a rate-limit error,
\* TOO_LONG_MSG for a remote timeout error (APITimeoutError) or expiry of
\* the 40 s wait, API_ERROR_MSG for any other API error, UNKNOWN_MSG for any
\* other exception, and the trimmed reply on success.
C6_FallbackTable ==
  \A r \in Requests :
    (Done(r) /\ cmplOutcome[r].kind # "none") =>
       /\ IsSuccess200(response[r])
       /\ response[r].body.gpt_output =
            LET o == cmplOutcome[r]
            IN  IF o.kind = "expired" THEN TOO_LONG_MSG
                ELSE IF o.kind = "raised" /\ o.cls = "RateLimitError" THEN RATE_LIMIT_MSG
                ELSE IF o.kind = "raised" /\ o.cls = "APITimeoutError" THEN TOO_LONG_MSG
                ELSE IF o.kind = "raised" /\ o.cls = "APIError" THEN API_ERROR_MSG
                ELSE IF o.kind = "raised" THEN UNKNOWN_MSG
                ELSE IF o.choices = 0 THEN UNKNOWN_MSG
                ELSE TrimmedReply(o)

\* C6 amended: as stated, except that an asyncio.TimeoutError raised by the
\* call itself also gives TOO_LONG_MSG (the handler cannot tell it from the
\* expiry of its own wait).
C6_FallbackTableAmended ==
  \A r \in Requests :
    (Done(r) /\ cmplOutcome[r].kind # "none") =>
       /\ IsSuccess200(response[r])
       /\ response[r].body.gpt_output =
            LET o == cmplOutcome[r]
            IN  IF o.kind = "expired" THEN TOO_LONG_MSG
                ELSE IF o.kind = "raised" /\ o.cls = "RateLimitError" THEN RATE_LIMIT_MSG
                ELSE IF o.kind = "raised" /\ o.cls = "APITimeoutError" THEN TOO_LONG_MSG
                ELSE IF o.kind = "raised" /\ o.cls = "APIError" THEN API_ERROR_MSG
                ELSE IF o.kind = "raised" /\ o.cls = "asyncioTimeoutError" THEN TOO_LONG_MSG
                ELSE IF o.kind = "raised" THEN UNKNOWN_MSG
                ELSE IF o.choices = 0 THEN UNKNOWN_MSG
                ELSE TrimmedReply(o)

C6_Witness ==
  \E r \in Requests :
    /\ Done(r)
    /\ cmplOutcome[r] = CallRaised("RateLimitError")
    /\ response[r].body.transcription = <<"h", "i">>
    /\ response[r].body.gpt_output = RATE_LIMIT_MSG

\* C7: the completion service is called only for a non-empty transcript,
\* and a request whose transcript is empty ends with 200 and both fields
\* empty without having called it.
C7_EmptyTranscriptSkipsCompletion ==
  \A r \in Requests :
    /\ Called(r, "chat.create") => (trEvent[r] = "returned" /\ Truthy(text[r]))
    /\ (Done(r) /\ trEvent[r] = "returned" /\ ~Truthy(text[r])) =>
          /\ ~Called(r, "chat.create")
          /\ cmplOutcome[r] = NoOutcome
          /\ response[r] = JSONResponse(200, [transcription |-> EmptyStr, gpt_output |-> EmptyStr])

C7_Witness ==
  \E r \in Requests :
    /\ Done(r)
    /\ trEvent[r] = "returned"
    /\ text[r] = EmptyStr
    /\ ~Called(r, "chat.create")
    /\ response[r].status = 200

C9_NoFileIs400 ==
  \A r \in Requests :
    (Done(r) /\ upload[r] = "absent") =>
       /\ response[r] = NoFile400
       /\ log[r] = <<>>

\* C10 as stated: a request owns at most one temp file and every existing
\* temp file belongs to a request in flight.
C10_NoArtifactOutlivesRequest ==
  /\ \A r \in Requests : Cardinality(ArtifactsOf(r)) <= 1
  /\ \A p \in Paths : fs[p] # NoFile => InFlight(fs[p])

\* C10 amended: a request owns at most one temp file and every existing temp
\* file belongs to a request in flight, or to a finished request whose
\* os.remove raised.
C10_ArtifactOutlivesOnlyOnFailedRemove ==
  /\ \A r \in Requests : Cardinality(ArtifactsOf(r)) <= 1
  /\ \A r \in Requests : InFlight(r) => Cardinality(ArtifactsOf(r)) = 1
  /\ \A p \in Paths :
       fs[p] # NoFile => (InFlight(fs[p]) \/ (Done(fs[p]) /\ removeFailed[fs[p]]))

C10_Witness ==
  \E r1, r2 \in Requests :
    /\ r1 # r2
    /\ InFlight(r1) /\ InFlight(r2)
    /\ ArtifactExists(r1) /\ ArtifactExists(r2)
    /\ ArtifactsOf(r1) # ArtifactsOf(r2)

\* C11 as stated: two requests in flight have temp files under different
\* names; a request in flight still has its own file under tmp_path (no
\* other request's cleanup removed or replaced it) and its worker thread was
\* given that path; once two requests are over no temp file of either
\* exists.
C11_IsolatedAndBothRemoved ==
  /\ \A r1, r2 \in Requests :
       (r1 # r2 /\ InFlight(r1) /\ InFlight(r2)) => tmp_path[r1] # tmp_path[r2]
  /\ \A r \in Requests :
       InFlight(r) =>
          /\ tmp_path[r] \in Paths
          /\ ArtifactsOf(r) = {tmp_path[r]}
          /\ (thread[r].state = "running" => thread[r].path = tmp_path[r])
  /\ \A r1, r2 \in Requests :
       (r1 # r2 /\ Done(r1) /\ Done(r2)) => (~ArtifactExists(r1) /\ ~ArtifactExists(r2))

\* C11 amended: as stated, except that once two requests are over the temp
\* file of each is gone unless its os.remove raised.
C11_IsolatedAndBothReleased ==
  /\ \A r1, r2 \in Requests :
       (r1 # r2 /\ InFlight(r1) /\ InFlight(r2)) => tmp_path[r1] # tmp_path[r2]
  /\ \A r \in Requests :
       InFlight(r) =>
          /\ tmp_path[r] \in Paths
          /\ ArtifactsOf(r) = {tmp_path[r]}
          /\ (thread[r].state = "running" => thread[r].path = tmp_path[r])
  /\ \A r1, r2 \in Requests :
       (r1 # r2 /\ Done(r1) /\ Done(r2)) =>
          /\ (~removeFailed[r1] => ~ArtifactExists(r1))
          /\ (~removeFailed[r2] => ~ArtifactExists(r2))
          /\ Count(log[r1], "os.remove") = Count(log[r1], "NamedTemporaryFile")
          /\ Count(log[r2], "os.remove") = Count(log[r2], "NamedTemporaryFile")

C11_Witness ==
  \E r1, r2 \in Requests :
    /\ r1 # r2
    /\ Done(r1) /\ Called(r1, "os.remove") /\ ~ArtifactExists(r1)
    /\ InFlight(r2) /\ thread[r2].state = "running"
    /\ fs[tmp_path[r2]] = r2

\* position of a call in the pipeline: persist, transcription, completion,
\* broadcast, response, cleanup
StageRank(call) ==
  CASE call = "NamedTemporaryFile" -> 1
    [] call = "to_thread" -> 2
    [] call = "chat.create" -> 3
    [] call = "send_message" -> 4
    [] call \in {"return", "raise"} -> 5
    [] call = "os.remove" -> 6

\* C12: the calls of one request happen in pipeline order with no step
\* back and no repetition: the temp file is created and written before the
\* transcription is started, the transcription has returned a text before
\* the completion is called, the completion has ended before the send, the
\* send is over before the response is determined, and os.remove runs after
\* that; a suspended request has made exactly the calls of the stages
\* before it.
C12_PipelineOrder ==
  \A r \in Requests :
    /\ \A i, j \in DOMAIN log[r] : i < j => StageRank(log[r][i]) < StageRank(log[r][j])
    /\ Called(r, "to_thread") => Called(r, "NamedTemporaryFile")
    /\ Called(r, "chat.create") => (Called(r, "to_thread") /\ trEvent[r] = "returned")
    /\ Called(r, "send_message") =>
          (trEvent[r] = "returned" /\ (Called(r, "chat.create") => cmplOutcome[r].kind # "none"))
    /\ Called(r, "os.remove") => (Called(r, "return") \/ Called(r, "raise"))
    /\ pc[r] = "idle" => log[r] = <<>>
    /\ pc[r] = "persist" => log[r] = <<"NamedTemporaryFile">>
    /\ pc[r] = "transcribing" => log[r] = <<"NamedTemporaryFile", "to_thread">>
    /\ pc[r] = "completing" => log[r] = <<"NamedTemporaryFile", "to_thread", "chat.create">>
    /\ (Done(r) /\ Called(r, "NamedTemporaryFile")) => log[r][Len(log[r])] = "os.remove"

\* two requests interleave: the later stage of one is reached while the
\* other is still in an earlier one, and one has sent its datagram already
C12_Witness ==
  \E r1, r2 \in Requests :
    /\ r1 # r2
    /\ log[r1] = <<"NamedTemporaryFile", "to_thread", "chat.create",
                   "send_message", "return", "os.remove">>
    /\ pc[r2] = "completing"
    /\ oscSent[r1] # <<>>

\* C13: a request whose transcription timed out or failed is answered 504
\* or 500 straight away: it never calls the completion service and never
\* sends an OSC datagram; only the return and os.remove follow the
\* transcription.
C13_TranscriptionFailureShortCircuits ==
  \A r \in Requests :
    /\ trEvent[r] \in {"expired", "raised"} =>
          /\ Done(r)
          /\ response[r] \in {Timeout504, Failed500}
          /\ log[r] = <<"NamedTemporaryFile", "to_thread", "return", "os.remove">>
          /\ cmplOutcome[r] = NoOutcome
          /\ oscSent[r] = <<>>
    /\ (Done(r) /\ response[r] \in {Timeout504, Failed500}) =>
          (~Called(r, "chat.create") /\ ~Called(r, "send_message") /\ oscSent[r] = <<>>)

C13_Witness ==
  \E r \in Requests :
    /\ Done(r)
    /\ trEvent[r] = "raised"
    /\ response[r] = Failed500
    /\ oscClient = "client"
    /\ ~Called(r, "chat.create")
    /\ ~Called(r, "send_message")

\* the request got as far as the broadcast stage
ReachedBroadcast(r) == Done(r) /\ IsSuccess200(response[r])

\* C14 as stated: a datagram is sent for a request exactly when it reached
\* the broadcast stage, the OSC client exists and gpt_output is non-empty;
\* at most one per request, carrying the gpt_output of the response.
C14_DatagramSentIff ==
  \A r \in Requests :
    /\ Len(oscSent[r]) <= 1
    /\ oscSent[r] # <<>> <=>
          /\ ReachedBroadcast(r)
          /\ oscClient = "client"
          /\ Truthy(response[r].body.gpt_output)
    /\ oscSent[r] # <<>> => oscSent[r][1] = response[r].body.gpt_output

\* C14 amended: osc_client.send_message is called for a request exactly
\* when it reached the broadcast stage, the OSC client exists and gpt_output
\* is non-empty; at most once per request; a datagram goes out only by that
\* call (none when the call raises), at most one, carrying the gpt_output of
\* the response.
C14_SendAttemptedIff ==
  \A r \in Requests :
    /\ Len(oscSent[r]) <= 1
    /\ Count(log[r], "send_message") <= 1
    /\ Called(r, "send_message") <=>
          /\ ReachedBroadcast(r)
          /\ oscClient = "client"
          /\ Truthy(response[r].body.gpt_output)
    /\ oscSent[r] # <<>> =>
          /\ Called(r, "send_message")
          /\ oscSent[r][1] = response[r].body.gpt_output

C14_Witness ==
  \E r \in Requests :
    /\ Done(r)
    /\ cmplOutcome[r] = WaitExpired
    /\ oscSent[r] = <<TOO_LONG_MSG>>
    /\ response[r].body.gpt_output = TOO_LONG_MSG

\* the worker thread of r ends after its waiter has gone
LateReturnStep(r) ==
  /\ thread[r].state = "running"
  /\ pc[r] # "transcribing"
  /\ thread'[r].state = "returned"

\* C15: after the 60 s wait expired the backend call may end later, and
\* when it does nothing but the thread changes: the request keeps its 504,
\* no completion call and no send is made, and no response, transcript or
\* datagram of any request changes.
C15_LateResultDiscarded ==
  /\ [](\A r \in Requests :
          trEvent[r] = "expired" =>
             /\ response[r] = Timeout504
             /\ text[r] = EmptyStr
             /\ ~Called(r, "chat.create")
             /\ ~Called(r, "send_message"))
  /\ [][\A r \in Requests :
          LateReturnStep(r) =>
             /\ trEvent[r] = "expired"
             /\ UNCHANGED <<response, text, log, cmplOutcome, oscSent, pc>>]_vars

C15_Witness ==
  \E r \in Requests :
    /\ trEvent[r] = "expired"
    /\ thread[r].state = "returned"
    /\ response[r] = Timeout504
    /\ log[r] = <<"NamedTemporaryFile", "to_thread", "return", "os.remove">>

\* C16 as stated: the temp file of a request exists for as long as the
\* backend call started on its path is running; os.remove never runs
\* before that call has returned, also after the 60 s wait expired.
C16_ArtifactOutlivesBackendCall ==
  \A r \in Requests :
    thread[r].state = "running" =>
       /\ fs[thread[r].path] = r
       /\ ~Called(r, "os.remove")

\* C16 amended: the temp file of a request exists, and os.remove has not
\* run, for as long as the handler waits for the backend call; when the
\* 60 s wait expires os.remove runs at once, while the call may still be
\* running on the path.
C16_ArtifactOutlivesWait ==
  \A r \in Requests :
    /\ pc[r] = "transcribing" =>
          /\ thread[r].state = "running"
          /\ fs[thread[r].path] = r
          /\ ~Called(r, "os.remove")
    /\ (thread[r].state = "running" /\ pc[r] # "transcribing") =>
          /\ trEvent[r] = "expired"
          /\ Called(r, "os.remove")

C16_Witness ==
  \E r \in Requests :
    /\ thread[r].state = "running"
    /\ thread[r].path \in Paths
    /\ fs[thread[r].path] = NoFile
    /\ Called(r, "os.remove")
    /\ ~removeFailed[r]

\* the copy to disk of r failed after its temp file was created
PersistFailed(r) ==
  /\ Done(r)
  /\ Called(r, "NamedTemporaryFile")
  /\ ~Called(r, "to_thread")

\* C17 as stated: when the copy to disk fails after the temp file was
\* created, also after some chunks were written, the file is gone when the
\* request is over.
C17_PartialArtifactRemoved ==
  \A r \in Requests :
    PersistFailed(r) =>
       /\ response[r] = Propagated("OSError")
       /\ ~ArtifactExists(r)

\* C17 amended: when the copy to disk fails after the temp file was
\* created, also after some chunks were written, os.remove is executed once
\* on the file before the request is over, and the file is gone unless that
\* removal raised.
C17_PartialArtifactReleased ==
  \A r \in Requests :
    /\ PersistFailed(r) =>
          /\ response[r] = Propagated("OSError")
          /\ log[r] = <<"NamedTemporaryFile", "raise", "os.remove">>
          /\ (~removeFailed[r] => ~ArtifactExists(r))
    /\ (written[r] > 0 /\ ~InFlight(r)) => PersistFailed(r)

C17_Witness ==
  \E r \in Requests :
    /\ PersistFailed(r)
    /\ written[r] > 0
    /\ Count(log[r], "os.remove") = 1
    /\ ~removeFailed[r]
    /\ ~ArtifactExists(r)

\* C18: when os.remove raises in the finally block the request still ends
\* with the response that was determined before: the documented response of
\* the stage it reached, and an exception only if the copy to disk had
\* raised one.
C18_CleanupFailureSwallowed ==
  \A r \in Requests :
    removeFailed[r] =>
       /\ Done(r)
       /\ Len(log[r]) >= 2
       /\ log[r][Len(log[r])] = "os.remove"
       /\ log[r][Len(log[r]) - 1] = (IF response[r].kind = "raise" THEN "raise" ELSE "return")
       /\ response[r].kind = "raise" <=> PersistFailed(r)
       /\ trEvent[r] = "expired" => response[r] = Timeout504
       /\ trEvent[r] = "raised" => response[r] \in {Failed500, Timeout504}
       /\ trEvent[r] = "returned" =>
             /\ IsSuccess200(response[r])
             /\ response[r].body.transcription = text[r]
             /\ (cmplOutcome[r].kind = "none" => response[r].body.gpt_output = EmptyStr)
             /\ (cmplOutcome[r].kind # "none" =>
                   response[r].body.gpt_output = CompletionStage(cmplOutcome[r]).value)

C18_Witness ==
  \E r \in Requests :
    /\ Done(r)
    /\ removeFailed[r]
    /\ ArtifactExists(r)
    /\ cmplOutcome[r] = Reply(1, FALSE, <<" ", "o", "k", " ">>)
    /\ response[r] = JSONResponse(200, [transcription |-> <<"h", "i">>, gpt_output |-> <<"o", "k">>])

\* C19: whatever fails, a request starts the transcription at most once,
\* calls the completion service at most once and calls send_message at
\* most once; a stage that failed is not entered again.
C19_NoRetry ==
  \A r \in Requests :
    /\ Count(log[r], "to_thread") <= 1
    /\ Count(log[r], "chat.create") <= 1
    /\ Count(log[r], "send_message") <= 1
    /\ Len(oscSent[r]) <= 1
    /\ (cmplOutcome[r].kind # "none" => pc[r] # "completing")
    /\ (trEvent[r] # "none" => pc[r] # "transcribing")

C19_Witness ==
  \E r \in Requests :
    /\ Done(r)
    /\ cmplOutcome[r] = CallRaised("RateLimitError")
    /\ Count(log[r], "chat.create") = 1
    /\ Count(log[r], "send_message") = 1
    /\ oscSent[r] = <<>>

====
